---- MODULE Spec2Model ----
(***************************************************************************)
(* Jurix: the retrieval-and-answer pipeline of src/llm.py                  *)
(* (analyze_and_generate_queries, answer_query_unified,                    *)
(* get_gemini_response_unified) with its collaborators in src/db.py and    *)
(* src/ingestion.py, the connection handling of the persistence adapter    *)
(* (src/db.py), the query counter and the endpoints of the API             *)
(* (src/main.py), the batching of get_embeddings and the ingestion of      *)
(* scraped judgments (src/ingestion.py, src/scraper.py).                   *)
(*                                                                         *)
(* Python strings whose characters matter (user queries, sub-queries,      *)
(* keywords, chunk contents) are sequences of characters; the fixed        *)
(* messages the functions return are TLA+ strings.  JSON / Python values   *)
(* of dynamic type are tagged records [type, val].                         *)
(***************************************************************************)
EXTENDS Integers, Sequences, FiniteSets, TLC

VARIABLES
    pc,            \* position inside the running function
    query,         \* the user's query (argument of both entry points)
    llm_response,  \* what the planning LLM call produced for this request
    query_plan,    \* llm.py:237  query_plan
    table,         \* which search loop is running: "legal_docs" or "cases"
    idx,           \* enumerate() index inside the running search loop
    all_results,   \* llm.py:245  all_results
    seen_content,  \* llm.py:246  seen_content
    context,       \* llm.py:293  context, as handed to the generator
    ret,           \* the value returned to the caller, NoReturn before that
    raised,        \* TRUE when an exception escaped to the caller
    calls,         \* log of the collaborator calls made, in call order
    fetched,       \* history: every row the store returned, in processing order
    outcomes,      \* history: how each search-loop iteration went
    gen_response,  \* what the answer LLM call produced for this request
    formatted_context,  \* llm.py:341  formatted_context, as put in the prompt
    open_conns,    \* db.py: database connections acquired and not closed
    db_log,        \* db.py: the adapter operations run so far
    total_queries, \* main.py:66  stats["total_queries"]
    running,       \* main.py: the request whose handler holds the event loop
    req,           \* main.py: per /api/query request, its handler's locals
    exec,          \* llm.py: the locals of each of two answer_query_unified runs
    embed,         \* ingestion.py:15-36  the locals of a get_embeddings call
    cases_table,   \* the cases table: per doc_id, the chunk records committed
    scraper,       \* scraper.py: position of the scraping loop and its log
    documents_processed,  \* main.py:65  stats["documents_processed"]
    upload_dir,    \* main.py:35  the files in DOCUMENTS_DIR
    responses      \* main.py: the HTTP responses sent so far

pipeVars == <<pc, query, llm_response, query_plan, table, idx, all_results,
              seen_content, context, ret, raised, calls, fetched, outcomes,
              gen_response, formatted_context>>
dbVars   == <<open_conns, db_log>>
apiVars  == <<total_queries, running, req>>
isoVars  == <<exec>>
ingestVars == <<embed, cases_table, scraper>>
httpVars == <<documents_processed, upload_dir, responses>>

\* the variables the pipeline, the adapter and the counter do not touch
restVars == <<isoVars, ingestVars, httpVars>>

vars == <<pipeVars, dbVars, apiVars, restVars>>

----------------------------------------------------------------------------
(* Bounds of the model.                                                    *)

\* largest similarity score the store reports (scores are 0..MaxSim)
MaxSim == 2
\* number of distinct row windows a search may return
NumWindows == 2
\* number of user queries the pipeline specification starts from
NumPipelineQueries == 2

\* number of adapter operations the database specification runs
MaxDbOps == 2
\* number of /api/query requests the API specification serves
NumRequests == 3
\* the longest list of texts handed to get_embeddings
MaxTexts == 210
\* ingestion.py:24  the batch size of get_embeddings
BatchSize == 100
\* judgments on the result page, and times the page is scraped
NumCases == 2
NumPasses == 2
\* number of requests the endpoint specification serves
MaxHttpRequests == 2

\* the database adapter and the API are not in use
DbIdle  == open_conns = 0 /\ db_log = <<>>
ApiIdle == total_queries = 0 /\ running = 0 /\ req = <<>>
IsoIdle == exec = <<>>
IngestIdle == embed = <<>> /\ cases_table = <<>> /\ scraper = <<>>
HttpIdle == documents_processed = 0 /\ upload_dir = {} /\ responses = <<>>

\* nothing else of the program is in use
RestIdle == IsoIdle /\ IngestIdle /\ HttpIdle

----------------------------------------------------------------------------
(* Characters and strings.                                                 *)

Min(a, b) == IF a <= b THEN a ELSE b
Max(a, b) == IF a >= b THEN a ELSE b

UpperChars == <<"A", "B", "C", "D", "E", "F", "G", "H", "I", "J", "K", "L", "M",
                "N", "O", "P", "Q", "R", "S", "T", "U", "V", "W", "X", "Y", "Z">>
LowerChars == <<"a", "b", "c", "d", "e", "f", "g", "h", "i", "j", "k", "l", "m",
                "n", "o", "p", "q", "r", "s", "t", "u", "v", "w", "x", "y", "z">>

\* str.lower() on one character
LowerChar(c) ==
    IF \E i \in 1..Len(UpperChars) : UpperChars[i] = c
    THEN LowerChars[CHOOSE i \in 1..Len(UpperChars) : UpperChars[i] = c]
    ELSE c

\* a lower() that leaves upper-case letters as they are (a case-sensitive match)
LowerMutant(s) == s

\* str.lower()
Lower(s) == [i \in 1..Len(s) |-> LowerChar(s[i])]

\* Python slice s[:n]
Slice(s, n) == SubSeq(s, 1, Min(n, Len(s)))

\* Python `keyword in s` on strings: keyword occurs as a substring
Contains(s, keyword) ==
    \E i \in 0..(Len(s) - Len(keyword)) :
        SubSeq(s, i + 1, i + Len(keyword)) = keyword

----------------------------------------------------------------------------
(* Dynamically typed values (parsed JSON, Python objects).                 *)

JStr(s)   == [type |-> "str",  val |-> s]
JNum(n)   == [type |-> "num",  val |-> n]
JList(xs) == [type |-> "list", val |-> xs]
JDict(d)  == [type |-> "dict", val |-> d]
JNull     == [type |-> "null", val |-> 0]

\* len(v): defined for str, list and dict; TypeError otherwise
HasLen(v) == v.type \in {"str", "list", "dict"}
PyLen(v)  ==
    IF v.type = "dict" THEN Cardinality(DOMAIN v.val) ELSE Len(v.val)

\* truthiness of a value, as in `if query_plan["legal_docs"]:`
Truthy(v) ==
    CASE v.type = "null" -> FALSE
      [] v.type = "num"  -> v.val # 0
      [] OTHER           -> PyLen(v) > 0

\* iterating a value (for ... in enumerate(v, 1)): a list yields its elements,
\* a string its characters, a dict its keys
KeyChars(k) ==
    CASE k = "legal_docs" -> <<"l", "e", "g", "a", "l", "_", "d", "o", "c", "s">>
      [] k = "cases"      -> <<"c", "a", "s", "e", "s">>
      [] OTHER            -> <<"n", "o", "t", "e", "s">>

RECURSIVE SetToSeq(_)
SetToSeq(S) ==
    IF S = {} THEN <<>>
    ELSE LET x == CHOOSE y \in S : TRUE IN <<x>> \o SetToSeq(S \ {x})

Iter(v) ==
    CASE v.type = "list" -> v.val
      [] v.type = "str"  -> [i \in 1..Len(v.val) |-> JStr(<<v.val[i]>>)]
      [] v.type = "dict" ->
            LET ks == SetToSeq(DOMAIN v.val)
            IN  [i \in 1..Len(ks) |-> JStr(KeyChars(ks[i]))]
      [] OTHER           -> <<>>

\* the outcome of evaluating Python code: a value, or an exception
Return(v) == [exc |-> FALSE, val |-> v]
Raise     == [exc |-> TRUE,  val |-> JNull]

----------------------------------------------------------------------------
(* The planning LLM call and analyze_and_generate_queries (llm.py:108-222) *)

\* What client.models.generate_content can produce for the planning prompt:
\* kind "raise"   the call raises;
\* kind "no_text" a response whose .text is None;
\* kind "text"    a response text: `json` is the JSON document the text holds
\*                (type "invalid" when the text is not JSON), `fence` tells
\*                whether it is wrapped in a markdown code block.
LLMRaise      == [kind |-> "raise",   fence |-> "none", json |-> JNull]
LLMNoText     == [kind |-> "no_text", fence |-> "none", json |-> JNull]
LLMText(f, j) == [kind |-> "text",    fence |-> f,      json |-> j]
JInvalid      == [type |-> "invalid", val |-> 0]

\* re.sub(r'^```json?\s*|\s*```$', '', text, flags=re.MULTILINE): removes an
\* opening ```json line and any ``` that ends a line
re_sub_fences(text) == [text EXCEPT !.fence = "none"]

\* json.loads(text): the parsed document, JSONDecodeError when the text still
\* carries a code fence or is not JSON
json_loads(text) ==
    IF text.fence # "none" \/ text.json.type = "invalid"
    THEN Raise
    ELSE Return(text.json)

\* llm.py:203  the structure check; TRUE when ValueError is raised
InvalidQueryStructure(queries) ==
    \/ queries.type # "dict"
    \/ "legal_docs" \notin DOMAIN queries.val
    \/ "cases" \notin DOMAIN queries.val

\* llm.py:185-214  the body of the try block
PlannerTry(resp) ==
    IF resp.kind = "raise" THEN Raise              \* generate_content raised
    ELSE IF resp.kind = "no_text" THEN Raise       \* None.strip()
    ELSE
      LET parsed == json_loads(re_sub_fences(resp)) IN
      IF parsed.exc THEN Raise
      ELSE IF InvalidQueryStructure(parsed.val) THEN Raise
      \* len(queries['legal_docs']), len(queries['cases']) in the prints
      ELSE IF ~HasLen(parsed.val.val.legal_docs) THEN Raise
      ELSE IF ~HasLen(parsed.val.val.cases) THEN Raise
      ELSE Return(parsed.val)

LegalKeywords ==
    << <<"s", "e", "c", "t", "i", "o", "n">>,
       <<"a", "r", "t", "i", "c", "l", "e">>,
       <<"a", "c", "t">>,
       <<"i", "p", "c">>,
       <<"c", "o", "n", "s", "t", "i", "t", "u", "t", "i", "o", "n">> >>

CaseKeywords ==
    << <<"c", "a", "s", "e">>,
       <<"j", "u", "d", "g", "m", "e", "n", "t">>,
       <<"p", "r", "e", "c", "e", "d", "e", "n", "t">>,
       <<"c", "o", "u", "r", "t">>,
       <<"i", "n", "t", "e", "r", "p", "r", "e", "t", "a", "t", "i", "o", "n">> >>

\* any(keyword in user_query.lower() for keyword in keywords)
AnyKeyword(user_query, keywords) ==
    \E i \in 1..Len(keywords) : Contains(Lower(user_query), keywords[i])

\* llm.py:219-222  the heuristic plan of the except branch
FallbackPlan(user_query) ==
    JDict([legal_docs |-> IF AnyKeyword(user_query, LegalKeywords)
                          THEN JList(<<JStr(user_query)>>) ELSE JList(<<>>),
           cases      |-> IF AnyKeyword(user_query, CaseKeywords)
                          THEN JList(<<JStr(user_query)>>) ELSE JList(<<>>)])

\* an except branch that re-raises instead of falling back
PlannerExceptMutant(user_query) == Raise

\* llm.py:216-222  except Exception: return the heuristic plan
PlannerExcept(user_query) == Return(FallbackPlan(user_query))

\* llm.py:108-222
analyze_and_generate_queries(user_query, resp) ==
    LET t == PlannerTry(resp) IN
    IF t.exc THEN PlannerExcept(user_query) ELSE t

----------------------------------------------------------------------------
(* Inputs: user queries and the planning LLM's possible outputs.           *)

QueryList ==
    << <<"a", "r", "t", "i", "c", "l", "e", " ", "1", "4", " ", "i", "n", "t",
         "e", "r", "p", "r", "e", "t", "a", "t", "i", "o", "n">>,
       <<"h", "e", "l", "l", "o">>,
       <<"W", "h", "a", "t", " ", "i", "s", " ", "A", "r", "t", "i", "c", "l",
         "e", " ", "2", "1", "?">>,
       <<"S", "E", "C", "T", "I", "O", "N", " ", "4", "2", "0">>,
       <<"c", "o", "u", "r", "t", " ", "c", "a", "s", "e", "s">>,
       <<"c", "o", "n", "t", "r", "a", "c", "t">>,
       <<"I", "P", "C", " ", "J", "u", "d", "g", "m", "e", "n", "t">>,
       <<"P", "r", "e", "c", "e", "d", "e", "n", "t">>,
       <<>> >>

Queries == {QueryList[i] : i \in 1..Len(QueryList)}

\* reformulated search strings the LLM may put in a plan
SubQueryPool ==
    << <<"A", "r", "t", "i", "c", "l", "e", " ", "2", "1">>,
       <<"S", "e", "c", "t", "i", "o", "n", " ", "4", "2", "0", " ", "I", "P", "C">>,
       <<"s", "o", "c", "i", "e", "t", "y", " ", "a", "s", " ", "t", "r", "u", "s", "t">>,
       <<"q", "4">> >>

\* a JSON list of the first n pool strings
SubQueryList(n) == JList([i \in 1..n |-> JStr(SubQueryPool[i])])

\* the JSON document {"legal_docs": [nl strings], "cases": [nc strings]}
PlanDoc(nl, nc) ==
    JDict([legal_docs |-> SubQueryList(nl), cases |-> SubQueryList(nc)])

\* (legal_docs, cases) list lengths of the well-formed plans the LLM returns
PlanShapes ==
    {<<0, 0>>, <<1, 0>>, <<0, 1>>, <<1, 1>>, <<2, 0>>, <<0, 2>>, <<1, 2>>,
     <<3, 3>>, <<4, 0>>, <<0, 4>>}

\* the plans of PlanShapes the pipeline specification runs to the end
PipelineShapes == {<<0, 0>>, <<1, 0>>, <<0, 1>>, <<1, 1>>, <<0, 2>>, <<1, 2>>}

MalformedDocs ==
    { JInvalid,                                            \* prose, not JSON
      JList(<<JStr(SubQueryPool[1])>>),                    \* a JSON array
      JNum(7),
      JStr(SubQueryPool[1]),
      JNull,
      JDict([legal_docs |-> SubQueryList(1)]),             \* no "cases"
      JDict([cases |-> SubQueryList(1)]),                  \* no "legal_docs"
      JDict([queries |-> SubQueryList(1)]),
      JDict([legal_docs |-> JNull, cases |-> SubQueryList(1)]),
      JDict([legal_docs |-> SubQueryList(1), cases |-> JNum(3)]),
      JDict([legal_docs |-> JStr(<<"a", "b">>), cases |-> SubQueryList(0)]),
      JDict([legal_docs |-> JList(<<JNum(21)>>), cases |-> SubQueryList(0)]),
      JDict([legal_docs |-> SubQueryList(1), cases |-> SubQueryList(0),
             notes |-> JStr(<<"o", "k">>)]),
      JDict([legal_docs |-> JDict([x |-> JNum(1)]), cases |-> SubQueryList(0)]) }

PlannerResponses ==
    {LLMRaise, LLMNoText}
      \cup {LLMText("none", d) : d \in MalformedDocs}
      \cup {LLMText("none", PlanDoc(sh[1], sh[2])) : sh \in PlanShapes}
      \cup {LLMText(f, PlanDoc(1, 1)) : f \in {"json", "plain"}}

PipelineResponses ==
    {LLMRaise, LLMText("json", PlanDoc(1, 0)),
     LLMText("none", JDict([legal_docs |-> JStr(<<"a", "b">>),
                            cases |-> SubQueryList(0)]))}
      \cup {LLMText("none", PlanDoc(sh[1], sh[2])) : sh \in PipelineShapes}

----------------------------------------------------------------------------
(* The similarity store (db.py) and the embedding provider (ingestion.py). *)

\* llm.py:258, 274  doc["content"][:100]
PrefixLen == 100
\* llm.py:254  top_k of the legal_docs search
TopKLegal == 7
\* llm.py:270  top_k of the cases search
TopKCases == 11
\* llm.py:288  all_results[:18]
TopN == 18

\* distance between the first rows of two consecutive row windows
Stride == 10
\* number of rows of a table that match a query before LIMIT is applied
FullLen == 12

\* Chunk texts.  Text 1 is shorter than the fingerprint prefix; texts 2 and 3
\* agree on their first PrefixLen characters and differ after them; every
\* other text has a prefix of its own.
ContentOf(c) ==
    IF c = 1 THEN <<1>>
    ELSE [i \in 1..(PrefixLen + 1) |->
            IF i <= PrefixLen THEN (IF c = 3 THEN 2 ELSE c) ELSE c]

\* cosine similarity of the i-th nearest row, as a score in 0..MaxSim
SimOf(base, i) == Max(0, base - ((i - 1) \div 6))

\* The record of chunk c in the cases table, as insert_many wrote it
\* (db.py:96-97: doc_id, case_title, section_type, content, embedding).
\* Every third chunk has no section_type, every fourth no doc_id.
CasesRecord(c) ==
    [doc_id       |-> IF c % 4 = 0 THEN "" ELSE "75521991",
     case_title   |-> "Case",
     section_type |-> IF c % 3 = 0 THEN "" ELSE "Facts",
     content      |-> ContentOf(c)]

\* the rows cursor.fetchall() would deliver without LIMIT: n rows starting at
\* window w, nearest first (ORDER BY embedding <=> query); for cases the
\* SELECT names content, case_title, section_type and the similarity
TableRows(tbl, w, n, base) ==
    [i \in 1..n |->
        LET c == (w - 1) * Stride + i IN
        IF tbl = "legal_docs"
        THEN <<ContentOf(c), "Act", SimOf(base, i)>>
        ELSE <<CasesRecord(c).content, CasesRecord(c).case_title,
               CasesRecord(c).section_type, SimOf(base, i)>>]

\* what the database does for one search: the connection or the query fails,
\* or the query matches `rows` (no row, a single row, or FullLen rows: any
\* window at the top score, or the first window at any score)
DbOutcomes(tbl) ==
    {[fails |-> TRUE, rows |-> <<>>], [fails |-> FALSE, rows |-> <<>>],
     [fails |-> FALSE, rows |-> TableRows(tbl, 1, 1, MaxSim)]}
      \cup {[fails |-> FALSE, rows |-> TableRows(tbl, w, FullLen, MaxSim)] :
                w \in 1..NumWindows}
      \cup {[fails |-> FALSE, rows |-> TableRows(tbl, 1, FullLen, base)] :
                base \in 1..MaxSim}

\* db.py:112-167  fetch_similar_documents: [] when anything fails, otherwise
\* the first top_k rows (LIMIT %s) as dicts
fetch_similar_documents(table_name, query_embedding, top_k, db) ==
    IF db.fails THEN <<>>
    ELSE LET rows == Slice(db.rows, top_k) IN
         [i \in 1..Len(rows) |->
            IF table_name = "legal_docs"
            THEN [content |-> rows[i][1], title |-> rows[i][2],
                  similarity |-> rows[i][3]]
            ELSE [content |-> rows[i][1], case_title |-> rows[i][2],
                  section_type |-> rows[i][3], similarity |-> rows[i][4]]]

\* the vector the provider returns for a text
Embedding(text) == [vector_of |-> text]

\* ingestion.py:15-36  get_embeddings: the list of vectors, None when the
\* provider call fails
get_embeddings(chunks, fails) ==
    IF fails THEN JNull
    ELSE JList([i \in 1..Len(chunks) |-> Embedding(chunks[i])])

\* Python v[0]
First(v) ==
    IF v.type = "list" /\ Len(v.val) >= 1 THEN Return(v.val[1]) ELSE Raise

----------------------------------------------------------------------------
(* answer_query_unified (llm.py:225-329)                                   *)

\* values a function hands back to its caller
RetStr(s) == [type |-> "str",      val |-> s]
RetNone   == [type |-> "NoneType", val |-> ""]
NoReturn  == [type |-> "pending",  val |-> ""]

NothingFound ==
    RetStr("I couldn't find relevant information in the legal database for your query. Please try rephrasing your question or ensure the documents are uploaded.")
ErrorProcessing == RetStr("Error processing your query. Please try again.")
EmptyResponse   == RetStr("Error: Empty response from AI.")
ErrorGenerating == RetStr("Error generating response from AI.")

NoResponse == [kind |-> "pending", fence |-> "none", json |-> JNull]

\* one entry of the call log
Call(op, tbl, k, arg) == [op |-> op, table |-> tbl, k |-> k, arg |-> arg]

\* hash() of a string: equal strings have equal hashes; a collision of
\* two different strings is not modelled
hash(s) == s

\* a fingerprint of the whole content instead of its first 100 characters
content_hash_Mutant(doc) == hash(doc.content)

\* llm.py:258, 274  content_hash = hash(doc["content"][:100])
content_hash(doc) == hash(Slice(doc.content, PrefixLen))

\* llm.py:261, 277  doc["source_table"] = ...
Tagged(doc, tbl) == doc @@ [source_table |-> tbl]

\* a merge in which a later duplicate of higher similarity replaces the entry
\* kept so far
RECURSIVE MergeResultsMutant(_, _, _)
MergeResultsMutant(results, tbl, acc) ==
    IF results = <<>> THEN acc
    ELSE LET doc == Head(results)
             h   == content_hash(doc)
         IN  MergeResultsMutant(Tail(results), tbl,
                IF h \in acc.seen
                THEN [all  |-> [i \in 1..Len(acc.all) |->
                                  IF content_hash(acc.all[i]) = h
                                     /\ acc.all[i].similarity < doc.similarity
                                  THEN Tagged(doc, tbl) ELSE acc.all[i]],
                      seen |-> acc.seen]
                ELSE [all  |-> Append(acc.all, Tagged(doc, tbl)),
                      seen |-> acc.seen \cup {h}])

\* llm.py:257-262, 273-278  the deduplicating loop over one result list;
\* acc is [all |-> all_results, seen |-> seen_content]
RECURSIVE MergeResults(_, _, _)
MergeResults(results, tbl, acc) ==
    IF results = <<>> THEN acc
    ELSE LET doc == Head(results)
             h   == content_hash(doc)
         IN  MergeResults(Tail(results), tbl,
                IF h \in acc.seen THEN acc
                ELSE [all  |-> Append(acc.all, Tagged(doc, tbl)),
                      seen |-> acc.seen \cup {h}])

\* loops that search with the user's query when the plan's list is empty
SubQueriesMutant(plan, tbl) ==
    IF Truthy(plan.val[tbl]) THEN Iter(plan.val[tbl]) ELSE <<JStr(query)>>

\* loops that run over the plan's list from its last entry to its first
SubQueriesReversedMutant(plan, tbl) ==
    IF Truthy(plan.val[tbl])
    THEN [i \in 1..Len(Iter(plan.val[tbl])) |->
             Iter(plan.val[tbl])[Len(Iter(plan.val[tbl])) + 1 - i]]
    ELSE <<>>

\* llm.py:249-251, 265-267  the sub-queries a table's loop runs over: none
\* when the plan's value is falsy
SubQueries(plan, tbl) ==
    IF Truthy(plan.val[tbl]) THEN Iter(plan.val[tbl]) ELSE <<>>

\* where control goes after the plan is made / after sub-query i of tbl
FirstPos(plan) ==
    IF SubQueries(plan, "legal_docs") # <<>> THEN <<"search", "legal_docs", 1>>
    ELSE IF SubQueries(plan, "cases") # <<>> THEN <<"search", "cases", 1>>
    ELSE <<"rank", "cases", 0>>

AfterPos(plan, tbl, i) ==
    IF i < Len(SubQueries(plan, tbl)) THEN <<"search", tbl, i + 1>>
    ELSE IF tbl = "legal_docs" /\ SubQueries(plan, "cases") # <<>>
         THEN <<"search", "cases", 1>>
    ELSE <<"rank", "cases", 0>>

\* list.sort(key=similarity, reverse=True) is stable: equal keys keep their
\* original order.  InsertDesc puts doc behind every entry whose similarity
\* is not smaller.
RECURSIVE InsertDesc(_, _)
InsertDesc(sorted, doc) ==
    IF sorted = <<>> THEN <<doc>>
    ELSE IF Head(sorted).similarity >= doc.similarity
         THEN <<Head(sorted)>> \o InsertDesc(Tail(sorted), doc)
         ELSE <<doc>> \o sorted

RECURSIVE SortFrom(_, _)
SortFrom(sorted, rest) ==
    IF rest = <<>> THEN sorted
    ELSE SortFrom(InsertDesc(sorted, Head(rest)), Tail(rest))

\* a ranking step that leaves the merge order as it is
SortBySimilarityMutant(results) == results

\* llm.py:287  all_results.sort(key=lambda x: x["similarity"], reverse=True)
SortBySimilarity(results) == SortFrom(<<>>, results)

\* the truncation of the older answering function: the first 8 entries
TopResultsMutant(results) == Slice(results, 8)

\* llm.py:288  top_results = all_results[:18]
TopResults(results) == Slice(results, TopN)

\* dict.get(key, default)
Get(doc, key, default) == IF key \in DOMAIN doc THEN doc[key] ELSE default

\* llm.py:294-312  one context entry
ContextEntry(doc) ==
    [content      |-> doc.content,
     title        |-> IF Get(doc, "title", "") # "" THEN doc.title
                      ELSE Get(doc, "case_title", "Untitled"),
     section_type |-> Get(doc, "section_type", ""),
     doc_id       |-> Get(doc, "doc_id", ""),
     source_table |-> doc.source_table,
     similarity   |-> doc.similarity]

BuildContext(top_results) ==
    [i \in 1..Len(top_results) |-> ContextEntry(top_results[i])]

\* what the answer LLM can produce: the call raises, or response.text is
\* None, empty or a text
GenOutcomes ==
    {[kind |-> "raise", text |-> RetNone],
     [kind |-> "text",  text |-> RetNone],
     [kind |-> "text",  text |-> RetStr("")],
     [kind |-> "text",  text |-> RetStr("## Overview")]}

\* before the answer LLM is called
NoGenResponse == [kind |-> "pending", text |-> RetNone]

\* a context that puts every entry in the statutory group
statutory_context_Mutant(ctx) == ctx

\* llm.py:337  statutory_context
statutory_context(ctx) ==
    SelectSeq(ctx, LAMBDA c : c.source_table = "legal_docs")

\* llm.py:338  case_context
case_context(ctx) == SelectSeq(ctx, LAMBDA c : c.source_table = "cases")

\* The formatted context is a sequence of blocks: a header line, or one
\* numbered entry.  The optional suffixes of an entry are <<>> when absent.
HeaderBlock(text) ==
    [kind |-> "header", ordinal |-> 0, title |-> text, section_info |-> <<>>,
     doc_id_info |-> <<>>, content |-> <<>>]

StatutoryHeader == "## Statutory Provisions (Constitution, IPC, IT Act):"
JudicialHeader  == "## Court Judgments & Precedents:"

\* llm.py:346  f"{i}. [{doc['title']}]\n{doc['content'][:600]}...\n\n"
StatutoryEntry(i, doc) ==
    [kind |-> "entry", ordinal |-> i, title |-> doc.title,
     section_info |-> <<>>, doc_id_info |-> <<>>,
     content |-> Slice(doc.content, 600)]

\* llm.py:351-355  the entry of a judgment, with its optional suffixes
JudicialEntry(i, doc) ==
    LET section == Get(doc, "section_type", "")
        doc_id  == Get(doc, "doc_id", "")
    IN  [kind |-> "entry", ordinal |-> i, title |-> doc.title,
         section_info |-> IF section # "" THEN <<" (", section, ")">> ELSE <<>>,
         doc_id_info  |-> IF doc_id # "" THEN <<" [doc_id: ", doc_id, "]">>
                          ELSE <<>>,
         content |-> Slice(doc.content, 600)]

\* a statutory section whose header is written even when the group is empty
StatutorySectionMutant(group) ==
    <<HeaderBlock(StatutoryHeader)>>
      \o [i \in 1..Len(group) |-> StatutoryEntry(i, group[i])]

\* llm.py:343-346
StatutorySection(group) ==
    IF group # <<>>
    THEN <<HeaderBlock(StatutoryHeader)>>
           \o [i \in 1..Len(group) |-> StatutoryEntry(i, group[i])]
    ELSE <<>>

\* llm.py:348-355
JudicialSection(group) ==
    IF group # <<>>
    THEN <<HeaderBlock(JudicialHeader)>>
           \o [i \in 1..Len(group) |-> JudicialEntry(i, group[i])]
    ELSE <<>>

\* llm.py:336-355  formatted_context
FormattedContext(ctx) ==
    StatutorySection(statutory_context(ctx))
      \o JudicialSection(case_context(ctx))

\* `x if x else y` on response.text
TextIsTruthy(t) == t.type = "str" /\ t.val # ""

\* a generation call that hands back response.text unchecked, as the older
\* get_gemini_response does (llm.py:61)
get_gemini_response_unified_Mutant(ctx, user_query, out) ==
    IF out.kind = "raise" THEN ErrorGenerating ELSE out.text

\* llm.py:476-485  the generation call of get_gemini_response_unified
get_gemini_response_unified(ctx, user_query, out) ==
    IF out.kind = "raise" THEN ErrorGenerating
    ELSE IF TextIsTruthy(out.text) THEN out.text
    ELSE EmptyResponse

\* llm.py:280  `if not all_results` never taken
NoResultsMutant(results) == FALSE

\* llm.py:280  if not all_results
NoResults(results) == results = <<>>

\* a handler that puts the exception's text into the returned string, as
\* the HTTP layer does in its 500 responses (main.py:176-179)
ExceptHandlerLeakMutant ==
    [ret |-> RetStr("Error processing query: 'NoneType' object is not subscriptable"),
     raised |-> FALSE]

\* no handler: the exception reaches the caller
ExceptHandlerMutant == [ret |-> NoReturn, raised |-> TRUE]

\* llm.py:325-329  except Exception: return the generic message
ExceptHandler == [ret |-> ErrorProcessing, raised |-> FALSE]

----------------------------------------------------------------------------
(* The pipeline as a state machine: one step per blocking collaborator     *)
(* round trip of answer_query_unified.                                     *)

Init ==
    /\ pc = "plan"
    /\ query \in {QueryList[i] : i \in 1..NumPipelineQueries}
    /\ llm_response = NoResponse
    /\ query_plan = JNull
    /\ table = "legal_docs"
    /\ idx = 0
    /\ all_results = <<>>
    /\ seen_content = {}
    /\ context = <<>>
    /\ ret = NoReturn
    /\ raised = FALSE
    /\ calls = <<>>
    /\ fetched = <<>>
    /\ outcomes = <<>>
    /\ gen_response = NoGenResponse
    /\ formatted_context = <<>>
    /\ DbIdle
    /\ ApiIdle
    /\ RestIdle

\* an except branch that only leaves the search loops: the request goes on
\* to ranking and generation with what it has
FailMutant ==
    /\ pc' = "rank"
    /\ ret' = ret
    /\ raised' = raised

\* an exception inside the try block: llm.py:325-329
Fail ==
    /\ pc' = "done"
    /\ ret' = ExceptHandler.ret
    /\ raised' = ExceptHandler.raised

\* llm.py:240-241  len(query_plan['legal_docs']), len(query_plan['cases'])
PlanLenRaises(plan) ==
    \/ plan.type # "dict"
    \/ "legal_docs" \notin DOMAIN plan.val
    \/ "cases" \notin DOMAIN plan.val
    \/ ~HasLen(plan.val.legal_docs)
    \/ ~HasLen(plan.val.cases)

\* llm.py:235-246  Step 1: the planner call, then the empty accumulators
Plan ==
    /\ pc = "plan"
    /\ \E resp \in PipelineResponses :
         LET r == analyze_and_generate_queries(query, resp) IN
         /\ llm_response' = resp
         /\ calls' = Append(calls, Call("plan", "", 0, JStr(query)))
         /\ IF r.exc \/ PlanLenRaises(r.val)
            THEN /\ Fail
                 /\ UNCHANGED <<query_plan, table, idx>>
            ELSE /\ query_plan' = r.val
                 /\ pc' = FirstPos(r.val)[1]
                 /\ table' = FirstPos(r.val)[2]
                 /\ idx' = FirstPos(r.val)[3]
                 /\ UNCHANGED <<ret, raised>>
    /\ UNCHANGED <<query, all_results, seen_content, context, fetched,
                   outcomes, gen_response, formatted_context>>
    /\ UNCHANGED <<dbVars, apiVars, restVars>>

\* llm.py:251-262 and 267-278  one iteration of a table's search loop:
\* embed the sub-query, search the table, merge the new rows
SearchIteration(tbl, top_k) ==
    /\ pc = "search"
    /\ table = tbl
    /\ LET search_query == SubQueries(query_plan, tbl)[idx] IN
       \E emb_fails \in BOOLEAN, db \in DbOutcomes(tbl) :
         LET embeddings == get_embeddings(<<search_query>>, emb_fails)
             first      == First(embeddings)
         IN
         IF first.exc
         THEN /\ calls' = Append(calls, Call("embed", "", 0, search_query))
              /\ outcomes' = Append(outcomes, "embed_failed")
              /\ Fail
              /\ UNCHANGED <<table, idx, all_results, seen_content, fetched>>
         ELSE LET query_embedding == first.val
                  results == fetch_similar_documents(tbl, query_embedding,
                                                     top_k, db)
                  merged  == MergeResults(results, tbl,
                                [all |-> all_results, seen |-> seen_content])
                  pos     == AfterPos(query_plan, tbl, idx)
              IN
              /\ calls' = calls \o
                    <<Call("embed", "", 0, search_query),
                      Call("search", tbl, top_k, query_embedding)>>
              /\ fetched' = fetched \o
                    [i \in 1..Len(results) |->
                        [doc |-> results[i], source |-> tbl]]
              /\ outcomes' = Append(outcomes,
                                    IF db.fails THEN "db_failed" ELSE "ok")
              /\ all_results' = merged.all
              /\ seen_content' = merged.seen
              /\ pc' = pos[1]
              /\ table' = pos[2]
              /\ idx' = pos[3]
              /\ UNCHANGED <<ret, raised>>
    /\ UNCHANGED <<query, llm_response, query_plan, context, gen_response,
                   formatted_context>>
    /\ UNCHANGED <<dbVars, apiVars, restVars>>

\* the legal_docs loop with the top_k of the older answering function
SearchLegalDocsMutant == SearchIteration("legal_docs", 5)

\* llm.py:249-262
SearchLegalDocs == SearchIteration("legal_docs", TopKLegal)

\* llm.py:265-278
SearchCases == SearchIteration("cases", TopKCases)

\* llm.py:280-323  the empty check, Steps 3 and 4, and the generator call
RankAndGenerate ==
    /\ pc = "rank"
    /\ pc' = "done"
    /\ IF NoResults(all_results)
       THEN /\ ret' = NothingFound
            /\ UNCHANGED <<all_results, context, calls, gen_response,
                           formatted_context>>
       ELSE \E out \in GenOutcomes :
              LET sorted == SortBySimilarity(all_results)
                  ctx    == BuildContext(TopResults(sorted))
              IN
              /\ all_results' = sorted
              /\ context' = ctx
              /\ calls' = Append(calls, Call("generate", "", 0, JStr(query)))
              /\ gen_response' = out
              /\ formatted_context' = FormattedContext(ctx)
              /\ ret' = get_gemini_response_unified(ctx, query, out)
    /\ UNCHANGED <<query, llm_response, query_plan, table, idx, seen_content,
                   raised, fetched, outcomes>>
    /\ UNCHANGED <<dbVars, apiVars, restVars>>

Next == Plan \/ SearchLegalDocs \/ SearchCases \/ RankAndGenerate

Spec == Init /\ [][Next]_vars

----------------------------------------------------------------------------
(* analyze_and_generate_queries on its own, over every query and every     *)
(* output of the planning LLM.                                             *)

InitPlanner ==
    /\ pc = "analyze"
    /\ query \in Queries
    /\ llm_response = NoResponse
    /\ query_plan = JNull
    /\ table = "legal_docs"
    /\ idx = 0
    /\ all_results = <<>>
    /\ seen_content = {}
    /\ context = <<>>
    /\ ret = NoReturn
    /\ raised = FALSE
    /\ calls = <<>>
    /\ fetched = <<>>
    /\ outcomes = <<>>
    /\ gen_response = NoGenResponse
    /\ formatted_context = <<>>
    /\ DbIdle
    /\ ApiIdle
    /\ RestIdle

\* a call of analyze_and_generate_queries(query): query_plan is what it
\* returns, raised tells whether it raised instead
Analyze ==
    /\ pc = "analyze"
    /\ \E resp \in PlannerResponses :
         LET r == analyze_and_generate_queries(query, resp) IN
         /\ llm_response' = resp
         /\ query_plan' = r.val
         /\ raised' = r.exc
    /\ pc' = "planned"
    /\ calls' = Append(calls, Call("plan", "", 0, JStr(query)))
    /\ UNCHANGED <<query, table, idx, all_results, seen_content, context, ret,
                   fetched, outcomes, gen_response, formatted_context>>
    /\ UNCHANGED <<dbVars, apiVars, restVars>>

NextPlanner == Analyze

SpecPlanner == InitPlanner /\ [][NextPlanner]_vars

----------------------------------------------------------------------------
(* The persistence adapter (db.py): what each operation does with the      *)
(* connection it acquires.                                                 *)

\* nothing of the pipeline is running
PipeIdle ==
    /\ pc = "idle"
    /\ query = <<>>
    /\ llm_response = NoResponse
    /\ query_plan = JNull
    /\ table = "legal_docs"
    /\ idx = 0
    /\ all_results = <<>>
    /\ seen_content = {}
    /\ context = <<>>
    /\ ret = NoReturn
    /\ raised = FALSE
    /\ calls = <<>>
    /\ fetched = <<>>
    /\ outcomes = <<>>
    /\ gen_response = NoGenResponse
    /\ formatted_context = <<>>

\* Where the database can fail inside an operation: psycopg2.connect,
\* connection.cursor(), cursor.execute / executemany / fetch*, or
\* connection.commit(); "none" when every call succeeds.
ReadFailurePoints  == {"none", "connect", "cursor", "execute"}
WriteFailurePoints == ReadFailurePoints \cup {"commit"}

\* A local name holding a connection or a cursor is "unbound" (never
\* assigned), "none" (assigned None), "open" or "closed".
\* The local `connection` when the try body is left, failing at fp
ConnAfterTry(initial, fp) == IF fp = "connect" THEN initial ELSE "open"

\* The local `cursor` when the try body is left, failing at fp
CursorAfterTry(initial, fp) ==
    IF fp \in {"connect", "cursor"} THEN initial ELSE "open"

\* `if cursor: cursor.close()` then `if connection: connection.close()`:
\* reading an unbound local raises UnboundLocalError and skips the rest;
\* None is falsy; closing a closed handle does nothing
FinallyClose(conn, cur) ==
    IF cur = "unbound" \/ conn = "unbound"
    THEN [raised |-> TRUE, conn |-> conn]
    ELSE [raised |-> FALSE, conn |-> IF conn = "open" THEN "closed" ELSE conn]

\* what an operation leaves behind: connections still open, and whether an
\* exception reached the caller
DbResult(conn, raised_out) ==
    [leaked |-> IF conn = "open" THEN 1 ELSE 0, raised |-> raised_out]

\* db.py:25-42  test_connection: closes only at the end of the try body; the
\* except branch prints
test_connection(fp) ==
    LET conn == IF fp = "none" THEN "closed" ELSE ConnAfterTry("unbound", fp)
    IN  DbResult(conn, FALSE)

\* db.py:44-75  insert: connection and cursor are first assigned inside the
\* try body; insert_query is assigned for legal_docs only, so for any other
\* table cursor.execute(insert_query, ...) raises UnboundLocalError
insert(table_name, fp) ==
    LET at   == IF table_name # "legal_docs" /\ fp \in {"none", "commit"}
                THEN "execute" ELSE fp
        conn == IF at = "none" THEN "closed" ELSE ConnAfterTry("unbound", at)
        cur  == IF at = "none" THEN "closed" ELSE CursorAfterTry("unbound", at)
        fin  == FinallyClose(conn, cur)
    IN  DbResult(fin.conn, fin.raised)

\* db.py:77-110  insert_many: both locals start as None, closed in finally
insert_many(table_name, fp) ==
    LET at  == IF table_name \notin {"legal_docs", "cases"}
                  /\ fp \in {"none", "commit"}
               THEN "execute" ELSE fp
        fin == FinallyClose(ConnAfterTry("none", at), CursorAfterTry("none", at))
    IN  DbResult(fin.conn, fin.raised)

\* db.py:120-167  the connection handling of fetch_similar_documents
fetch_similar_documents_conn(fp) ==
    LET fin == FinallyClose(ConnAfterTry("none", fp), CursorAfterTry("none", fp))
    IN  DbResult(fin.conn, fin.raised)

\* db.py:169-196  check_if_docid_exists
check_if_docid_exists(fp) ==
    LET fin == FinallyClose(ConnAfterTry("none", fp), CursorAfterTry("none", fp))
    IN  DbResult(fin.conn, fin.raised)

TableNames == {"legal_docs", "cases"}

InitDb ==
    /\ PipeIdle
    /\ DbIdle
    /\ ApiIdle
    /\ RestIdle

\* one run of an adapter operation: its leaked connections stay open
DbOperation(op, fp, r) ==
    /\ Len(db_log) < MaxDbOps
    /\ open_conns' = open_conns + r.leaked
    /\ db_log' = Append(db_log, [op |-> op, fp |-> fp, raised |-> r.raised,
                                 leaked |-> r.leaked])
    /\ UNCHANGED <<pipeVars, apiVars, restVars>>

TestConnection ==
    \E fp \in ReadFailurePoints :
        DbOperation("test_connection", fp, test_connection(fp))

Insert ==
    \E fp \in WriteFailurePoints, t \in TableNames :
        DbOperation("insert", fp, insert(t, fp))

InsertMany ==
    \E fp \in WriteFailurePoints, t \in TableNames :
        DbOperation("insert_many", fp, insert_many(t, fp))

FetchSimilarDocuments ==
    \E fp \in ReadFailurePoints :
        DbOperation("fetch_similar_documents", fp,
                    fetch_similar_documents_conn(fp))

CheckIfDocidExists ==
    \E fp \in ReadFailurePoints :
        DbOperation("check_if_docid_exists", fp, check_if_docid_exists(fp))

NextDb ==
    \/ TestConnection
    \/ Insert
    \/ InsertMany
    \/ FetchSimilarDocuments
    \/ CheckIfDocidExists

SpecDb == InitDb /\ [][NextDb]_vars

----------------------------------------------------------------------------
(* The /api/query endpoint (main.py:141-179) and the process-wide counter  *)
(* stats["total_queries"].  uvicorn runs one process with one event loop   *)
(* (main.py:267-273); query_legal_assistant is an `async def` without any  *)
(* await, so a handler that has started runs to its end before the loop    *)
(* starts another one.                                                     *)

Requests == 1..NumRequests

\* a request that has not been sent yet
NoRequest == [pc |-> "idle", debug |-> FALSE, tmp |-> 0, status |-> 0]

InitApi ==
    /\ PipeIdle
    /\ DbIdle
    /\ RestIdle
    /\ total_queries = 0
    /\ running = 0
    /\ req = [r \in Requests |-> NoRequest]

\* handlers dispatched to a pool of threads, as FastAPI does for `def`
\* handlers: a new one may start while another is between two bytecodes
EventLoopFreeMutant == TRUE

\* the event loop starts a handler only when no handler is running
EventLoopFree == running = 0

\* a client sends POST /api/query (debug flag of the QueryRequest)
Arrive(r) ==
    /\ req[r].pc = "idle"
    /\ \E d \in BOOLEAN :
         req' = [req EXCEPT ![r].pc = "pending", ![r].debug = d]
    /\ UNCHANGED <<total_queries, running>>
    /\ UNCHANGED <<pipeVars, dbVars, restVars>>

\* the event loop calls query_legal_assistant(request)
Dispatch(r) ==
    /\ req[r].pc = "pending"
    /\ EventLoopFree
    /\ running' = r
    /\ req' = [req EXCEPT ![r].pc = "load"]
    /\ UNCHANGED total_queries
    /\ UNCHANGED <<pipeVars, dbVars, restVars>>

\* main.py:155  stats["total_queries"] += 1, the read of the old value
LoadCounter(r) ==
    /\ req[r].pc = "load"
    /\ req' = [req EXCEPT ![r].pc = "store", ![r].tmp = total_queries]
    /\ UNCHANGED <<total_queries, running>>
    /\ UNCHANGED <<pipeVars, dbVars, restVars>>

\* main.py:155  stats["total_queries"] += 1, the write of old value + 1
StoreCounter(r) ==
    /\ req[r].pc = "store"
    /\ total_queries' = req[r].tmp + 1
    /\ req' = [req EXCEPT ![r].pc = "answer"]
    /\ UNCHANGED running
    /\ UNCHANGED <<pipeVars, dbVars, restVars>>

\* main.py:157-179  the rest of the handler: the answer is returned (200),
\* or an exception is turned into HTTPException(500)
Respond(r) ==
    /\ req[r].pc = "answer"
    /\ \E st \in {200, 500} :
         req' = [req EXCEPT ![r].pc = "done", ![r].status = st]
    /\ running' = IF running = r THEN 0 ELSE running
    /\ UNCHANGED total_queries
    /\ UNCHANGED <<pipeVars, dbVars, restVars>>

NextApi ==
    \E r \in Requests :
        \/ Arrive(r)
        \/ Dispatch(r)
        \/ LoadCounter(r)
        \/ StoreCounter(r)
        \/ Respond(r)

SpecApi == InitApi /\ [][NextApi]_vars

----------------------------------------------------------------------------
(* answer_query_unified as a function of its collaborators' responses, on  *)
(* a record of its locals: used to run two invocations side by side and to *)
(* run one plan in two sub-query orders.                                   *)

\* llm.py:225-246  the locals of an invocation that has just been entered
FreshExec(q) ==
    [pc |-> "plan", query |-> q, query_plan |-> JNull, table |-> "legal_docs",
     idx |-> 0, all_results |-> <<>>, seen_content |-> {}, context |-> <<>>,
     ret |-> NoReturn]

\* one collaborator response: the planning LLM's (`plan`), the embedding
\* provider's and the store's (`emb_fails`, `db`), or the answer LLM's (`out`)
\* (the fields of the collaborators not asked hold idle values)
NoRows == [fails |-> FALSE, rows |-> <<>>]
Response(plan, emb_fails, db, out) ==
    [plan |-> plan, emb_fails |-> emb_fails, db |-> db, out |-> out]

\* llm.py:325-329 on the record
ExecFail(e) == [e EXCEPT !.pc = "done", !.ret = ExceptHandler.ret]

\* llm.py:235-246
ExecPlan(e, resp) ==
    LET r == analyze_and_generate_queries(e.query, resp) IN
    IF r.exc \/ PlanLenRaises(r.val) THEN ExecFail(e)
    ELSE [e EXCEPT !.query_plan = r.val,
                   !.pc = FirstPos(r.val)[1],
                   !.table = FirstPos(r.val)[2],
                   !.idx = FirstPos(r.val)[3]]

\* llm.py:254, 270  top_k of a table's search
TopKOf(tbl) == IF tbl = "legal_docs" THEN TopKLegal ELSE TopKCases

\* llm.py:251-262, 267-278  one loop iteration; `seen` is the deduplication
\* set the iteration reads
ExecSearch(e, seen, emb_fails, db) ==
    LET search_query == SubQueries(e.query_plan, e.table)[e.idx]
        first == First(get_embeddings(<<search_query>>, emb_fails))
    IN
    IF first.exc THEN ExecFail(e)
    ELSE LET results == fetch_similar_documents(e.table, first.val,
                                                TopKOf(e.table), db)
             merged  == MergeResults(results, e.table,
                                     [all |-> e.all_results, seen |-> seen])
             pos     == AfterPos(e.query_plan, e.table, e.idx)
         IN  [e EXCEPT !.all_results = merged.all,
                       !.seen_content = merged.seen,
                       !.pc = pos[1], !.table = pos[2], !.idx = pos[3]]

\* llm.py:280-323
ExecRank(e, out) ==
    IF NoResults(e.all_results)
    THEN [e EXCEPT !.pc = "done", !.ret = NothingFound]
    ELSE LET sorted == SortBySimilarity(e.all_results)
             ctx    == BuildContext(TopResults(sorted))
         IN  [e EXCEPT !.all_results = sorted, !.context = ctx, !.pc = "done",
                       !.ret = get_gemini_response_unified(ctx, e.query, out)]

\* the invocation consumes the response h at its current position
ApplyResponse(e, seen, h) ==
    CASE e.pc = "plan"   -> ExecPlan(e, h.plan)
      [] e.pc = "search" -> ExecSearch(e, seen, h.emb_fails, h.db)
      [] e.pc = "rank"   -> ExecRank(e, h.out)
      [] OTHER           -> e

\* the invocation run on its own over the responses `heard`
RECURSIVE RunAlone(_, _)
RunAlone(e, heard) ==
    IF heard = <<>> THEN e
    ELSE RunAlone(ApplyResponse(e, e.seen_content, Head(heard)), Tail(heard))

\* the two invocations that run side by side
Executions == {1, 2}

\* a deduplication set kept at module level and shared by all invocations
SeenContentOfMutant(ex, i) == UNION {ex[j].st.seen_content : j \in DOMAIN ex}

\* llm.py:246  seen_content = set(): created inside the call, so each
\* invocation reads its own
SeenContentOf(ex, i) == ex[i].st.seen_content

\* what the collaborators answer while two invocations run
IsoPlans == {LLMRaise, LLMText("none", PlanDoc(1, 0)),
             LLMText("none", PlanDoc(1, 1))}
IsoDbOutcomes(tbl) ==
    {[fails |-> TRUE, rows |-> <<>>],
     [fails |-> FALSE, rows |-> TableRows(tbl, 1, 1, MaxSim)],
     [fails |-> FALSE, rows |-> TableRows(tbl, 1, 2, 1)]}

InitIso ==
    /\ PipeIdle
    /\ DbIdle
    /\ ApiIdle
    /\ IngestIdle
    /\ HttpIdle
    /\ exec = [i \in Executions |->
                  [st |-> FreshExec(QueryList[i]), heard |-> <<>>]]

\* invocation i consumes h
Advance(i, h) ==
    /\ exec' = [exec EXCEPT
                  ![i] = [st |-> ApplyResponse(exec[i].st,
                                               SeenContentOf(exec, i), h),
                          heard |-> Append(exec[i].heard, h)]]
    /\ UNCHANGED <<pipeVars, dbVars, apiVars, ingestVars, httpVars>>

RunPlan(i) ==
    /\ exec[i].st.pc = "plan"
    /\ \E resp \in IsoPlans :
         Advance(i, Response(resp, FALSE, NoRows, NoGenResponse))

RunSearch(i) ==
    /\ exec[i].st.pc = "search"
    /\ \E emb_fails \in BOOLEAN, db \in IsoDbOutcomes(exec[i].st.table) :
         Advance(i, Response(NoResponse, emb_fails, db, NoGenResponse))

RunRank(i) ==
    /\ exec[i].st.pc = "rank"
    /\ IF NoResults(exec[i].st.all_results)
       THEN Advance(i, Response(NoResponse, FALSE, NoRows, NoGenResponse))
       ELSE \E out \in GenOutcomes :
              Advance(i, Response(NoResponse, FALSE, NoRows, out))

NextIso == \E i \in Executions : RunPlan(i) \/ RunSearch(i) \/ RunRank(i)

SpecIso == InitIso /\ [][NextIso]_vars

\* One plan with two sub-queries for one table, run in both orders against
\* a store whose answer depends on the sub-query only.
InitPermute ==
    /\ PipeIdle
    /\ DbIdle
    /\ ApiIdle
    /\ RestIdle

\* a plan whose list for tbl is `subs` and whose other list is empty
PlanWith(tbl, subs) ==
    JDict([k \in {"legal_docs", "cases"} |->
              IF k = tbl THEN JList(subs) ELSE JList(<<>>)])

RunBothOrders ==
    /\ exec = <<>>
    /\ \E tbl \in {"legal_docs", "cases"}, out \in GenOutcomes :
       \E ra \in DbOutcomes(tbl), rb \in DbOutcomes(tbl) :
         LET qa == JStr(SubQueryPool[1])
             qb == JStr(SubQueryPool[2])
             planned(subs) ==
                 Response(LLMText("none", PlanWith(tbl, subs)), FALSE, NoRows,
                          NoGenResponse)
             searched(db) == Response(NoResponse, FALSE, db, NoGenResponse)
             generated == Response(NoResponse, FALSE, NoRows, out)
             heard_ab == <<planned(<<qa, qb>>), searched(ra), searched(rb),
                           generated>>
             heard_ba == <<planned(<<qb, qa>>), searched(rb), searched(ra),
                           generated>>
         IN  exec' = [i \in Executions |->
                        IF i = 1
                        THEN [st |-> RunAlone(FreshExec(QueryList[1]), heard_ab),
                              heard |-> heard_ab]
                        ELSE [st |-> RunAlone(FreshExec(QueryList[1]), heard_ba),
                              heard |-> heard_ba]]
    /\ UNCHANGED <<pipeVars, dbVars, apiVars, ingestVars, httpVars>>

SpecPermute == InitPermute /\ [][RunBothOrders]_vars

----------------------------------------------------------------------------
(* get_embeddings (ingestion.py:15-36) as a loop over batches: one step    *)
(* per call of the embedding provider.                                     *)

\* the locals of a get_embeddings(chunks) call that has entered its try body
EmbedCall(chunks) ==
    [pc |-> "loop", chunks |-> chunks, i |-> 0, embeddings |-> <<>>,
     sent |-> <<>>, failed |-> FALSE, ret |-> NoReturn]

\* ingestion.py:25  chunks[i:i + 100], i counted from 0
Batch(chunks, i) ==
    SubSeq(chunks, i + 1, IF i + BatchSize < Len(chunks) THEN i + BatchSize
                          ELSE Len(chunks))

\* an except branch that hands back what was collected so far
EmbedExceptMutant(e) == JList(e.embeddings)

\* ingestion.py:34-36  except Exception: return None
EmbedExcept(e) == JNull

\* the input texts: n distinct texts, numbered in input order
Texts(n) == [k \in 1..n |-> k]

InitEmbed ==
    /\ PipeIdle
    /\ DbIdle
    /\ ApiIdle
    /\ IsoIdle
    /\ HttpIdle
    /\ cases_table = <<>>
    /\ scraper = <<>>
    /\ embed \in {EmbedCall(Texts(n)) : n \in 0..MaxTexts}

\* ingestion.py:24-30  one iteration of the for loop: the provider call of
\* the batch at offset i, which answers with one vector per text of the
\* batch, in order, or raises
EmbedBatch ==
    /\ embed.pc = "loop"
    /\ embed.i < Len(embed.chunks)
    /\ \E fails \in BOOLEAN :
         LET batch == Batch(embed.chunks, embed.i)
             sent  == Append(embed.sent, batch)
         IN  IF fails
             THEN embed' = [embed EXCEPT !.pc = "done", !.sent = sent,
                                         !.failed = TRUE,
                                         !.ret = EmbedExcept(embed)]
             ELSE embed' = [embed EXCEPT
                              !.sent = sent,
                              !.embeddings = embed.embeddings
                                  \o [k \in 1..Len(batch) |-> Embedding(batch[k])],
                              !.i = embed.i + BatchSize]
    /\ UNCHANGED <<pipeVars, dbVars, apiVars, isoVars, httpVars, cases_table,
                   scraper>>

\* ingestion.py:31-32  the loop is exhausted: return embeddings
EmbedReturn ==
    /\ embed.pc = "loop"
    /\ embed.i >= Len(embed.chunks)
    /\ embed' = [embed EXCEPT !.pc = "done", !.ret = JList(embed.embeddings)]
    /\ UNCHANGED <<pipeVars, dbVars, apiVars, isoVars, httpVars, cases_table,
                   scraper>>

NextEmbed == EmbedBatch \/ EmbedReturn

SpecEmbed == InitEmbed /\ [][NextEmbed]_vars

----------------------------------------------------------------------------
(* The scraper's loop over a result page (scraper.py:35-93) and            *)
(* insert_case_into_db (ingestion.py:182-224).                             *)

\* what process_case_for_ingestion can hand back: None when the fact
\* summary fails, [] for a judgment without sections, else its chunks
CaseChunks ==
    {JNull, JList(<<>>),
     JList(<<[section_type |-> "Facts", content |-> <<"f">>],
             [section_type |-> "Issues", content |-> <<"i">>]>>)}

\* db.py:98-99  executemany and commit are both reached and succeed
insert_many_commits(table_name, fp) ==
    table_name \in {"legal_docs", "cases"} /\ fp = "none"

\* ingestion.py:182-224  insert_case_into_db: the value returned, the
\* records the database committed, and the stage that failed
insert_case_into_db(doc_id, case_title, chunks, emb_fails, fp) ==
    IF ~Truthy(chunks)
    THEN [ret |-> FALSE, committed |-> <<>>, leaked |-> 0, failure |-> "chunks"]
    ELSE
      LET texts      == [k \in 1..Len(chunks.val) |-> chunks.val[k].content]
          embeddings == get_embeddings(texts, emb_fails)
      IN  IF ~Truthy(embeddings)
          THEN [ret |-> FALSE, committed |-> <<>>, leaked |-> 0,
                failure |-> "embedding"]
          ELSE
            LET records == [k \in 1..Len(chunks.val) |->
                              [doc_id |-> doc_id, case_title |-> case_title,
                               section_type |-> chunks.val[k].section_type,
                               content |-> chunks.val[k].content,
                               embedding |-> embeddings.val[k]]]
                db == insert_many("cases", fp)
            IN  [ret |-> ~db.raised,
                 committed |-> IF insert_many_commits("cases", fp)
                               THEN records ELSE <<>>,
                 leaked |-> db.leaked,
                 failure |-> IF fp = "none" THEN "none" ELSE "insert"]

\* scraper.py:29  search_results["cases"] of the result page: its doc_ids
SearchResults == [k \in 1..NumCases |-> k]

InitScraper ==
    /\ PipeIdle
    /\ DbIdle
    /\ ApiIdle
    /\ IsoIdle
    /\ HttpIdle
    /\ embed = <<>>
    /\ cases_table = <<>>
    /\ scraper = [pass |-> 0, i |-> 0, log |-> <<>>]

\* scraper.py:25-29  the result page is requested and parsed
FetchSearchResults ==
    /\ scraper.i = 0
    /\ scraper.pass < NumPasses
    /\ scraper' = [scraper EXCEPT !.pass = scraper.pass + 1, !.i = 1]
    /\ UNCHANGED <<pipeVars, dbVars, apiVars, isoVars, httpVars, embed,
                   cases_table>>

\* scraper.py:37-85  one iteration of the for loop: the judgment is
\* downloaded, parsed and handed to insert_case_into_db; the existence check
\* of lines 47-49 is commented out
ScrapeCase ==
    /\ scraper.i \in 1..NumCases
    /\ \E chunks \in CaseChunks, emb_fails \in BOOLEAN,
          fp \in WriteFailurePoints :
         LET doc_id == SearchResults[scraper.i]
             r == insert_case_into_db(doc_id, "Case", chunks, emb_fails, fp)
         IN  /\ cases_table' = cases_table \o r.committed
             /\ open_conns' = open_conns + r.leaked
             /\ scraper' = [scraper EXCEPT
                   !.i = IF scraper.i = NumCases THEN 0 ELSE scraper.i + 1,
                   !.log = Append(scraper.log,
                                  [doc_id |-> doc_id, pass |-> scraper.pass,
                                   success |-> r.ret,
                                   committed |-> r.committed # <<>>,
                                   failure |-> r.failure])]
    /\ UNCHANGED <<pipeVars, db_log, apiVars, isoVars, httpVars, embed>>

NextScraper == FetchSearchResults \/ ScrapeCase

SpecScraper == InitScraper /\ [][NextScraper]_vars

----------------------------------------------------------------------------
(* The endpoints /health, /api/documents/upload and /api/query of          *)
(* main.py, one handler at a time: what each answers and what it leaves    *)
(* behind.                                                                 *)

\* Python s.endswith(suffix)
EndsWith(s, suffix) ==
    /\ Len(s) >= Len(suffix)
    /\ SubSeq(s, Len(s) - Len(suffix) + 1, Len(s)) = suffix

\* names of uploaded files
Filenames ==
    {<<"r", ".", "p", "d", "f">>, <<"n", ".", "t", "x", "t">>,
     <<"r", ".", "P", "D", "F">>, <<"p", "d", "f">>}

\* main.py:70-87  health_check: the except branch is taken when
\* test_connection raises
health_check(fp) ==
    LET db == test_connection(fp)
    IN  IF db.raised
        THEN [status |-> "unhealthy", database_connected |-> FALSE,
              leaked |-> db.leaked]
        ELSE [status |-> "healthy", database_connected |-> TRUE,
              leaked |-> db.leaked]

\* main.py:105-129  the try body of upload_document: how it is left, whether
\* the local file_path was assigned, the directory and the counter after it
UploadTry(dir, count, filename, save_fails) ==
    IF ~EndsWith(filename, <<".", "p", "d", "f">>)
    THEN [exc |-> "HTTPException", code |-> 400,
          detail |-> "Only PDF files are supported",
          file_path_bound |-> FALSE, dir |-> dir, count |-> count]
    ELSE IF save_fails
    THEN [exc |-> "OSError", code |-> 0, detail |-> "",
          file_path_bound |-> TRUE, dir |-> dir \cup {filename},
          count |-> count]
    ELSE [exc |-> "none", code |-> 200, detail |-> "processed successfully",
          file_path_bound |-> TRUE, dir |-> dir \cup {filename},
          count |-> count + 1]

\* main.py:131-139  except Exception as e: it also catches the HTTPException
\* raised in the try body; reading the unassigned local file_path raises
\* UnboundLocalError, which leaves the handler and is answered by the
\* server's 500 page
UploadExcept(t, filename) ==
    IF ~t.file_path_bound
    THEN [status |-> 500, detail |-> "Internal Server Error",
          dir |-> t.dir, count |-> t.count]
    ELSE [status |-> 500, detail |-> "Error processing document",
          dir |-> t.dir \ {filename}, count |-> t.count]

\* main.py:90-139  upload_document
upload_document(dir, count, filename, save_fails) ==
    LET t == UploadTry(dir, count, filename, save_fails)
    IN  IF t.exc = "none"
        THEN [status |-> t.code, detail |-> t.detail, dir |-> t.dir,
              count |-> t.count]
        ELSE UploadExcept(t, filename)

\* what the collaborators answer while /api/query is served
\* the planning LLM's answer: a plan with one sub-query, for table tbl
HttpPlan(tbl) ==
    LLMText("none", IF tbl = "legal_docs" THEN PlanDoc(1, 0) ELSE PlanDoc(0, 1))
HttpDbOutcomes(tbl) ==
    {NoRows, [fails |-> FALSE, rows |-> TableRows(tbl, 1, 1, MaxSim)]}

\* main.py:153-173  query_legal_assistant: with debug the handler asks the
\* planner itself (161), then answer_query_unified asks it again
\* (llm.py:237); resp1 and heard[1] are the two answers of the planning LLM
query_legal_assistant(q, debug, resp1, heard) ==
    LET shown == analyze_and_generate_queries(q, resp1)
        e     == RunAlone(FreshExec(q), heard)
    IN  IF debug /\ shown.exc
        THEN [status |-> 500, answer |-> NoReturn, query_plan |-> JNull,
              used_plan |-> JNull, planner_calls |-> 1]
        ELSE [status |-> 200, answer |-> e.ret,
              query_plan |-> IF debug THEN shown.val ELSE JNull,
              used_plan |-> e.query_plan,
              planner_calls |-> IF debug THEN 1 + 1 ELSE 1]

InitHttp ==
    /\ PipeIdle
    /\ DbIdle
    /\ ApiIdle
    /\ IsoIdle
    /\ IngestIdle
    /\ HttpIdle

\* GET /health
HealthCheck ==
    /\ Len(responses) < MaxHttpRequests
    /\ \E fp \in ReadFailurePoints :
         LET r == health_check(fp)
         IN  /\ open_conns' = open_conns + r.leaked
             /\ responses' = Append(responses,
                   [endpoint |-> "health", status |-> r.status,
                    database_connected |-> r.database_connected,
                    connection_failed |-> fp # "none"])
    /\ UNCHANGED <<pipeVars, db_log, apiVars, isoVars, ingestVars,
                   documents_processed, upload_dir>>

\* POST /api/documents/upload
UploadDocument ==
    /\ Len(responses) < MaxHttpRequests
    /\ \E filename \in Filenames, save_fails \in BOOLEAN :
         LET r == upload_document(upload_dir, documents_processed, filename,
                                  save_fails)
         IN  /\ upload_dir' = r.dir
             /\ documents_processed' = r.count
             /\ responses' = Append(responses,
                   [endpoint |-> "upload", filename |-> filename,
                    status |-> r.status, detail |-> r.detail,
                    wrote |-> r.dir # upload_dir,
                    counted |-> r.count # documents_processed])
    /\ UNCHANGED <<pipeVars, dbVars, apiVars, isoVars, ingestVars>>

\* POST /api/query
QueryLegalAssistant ==
    /\ Len(responses) < MaxHttpRequests
    /\ \E debug \in BOOLEAN, tbl1 \in TableNames, tbl2 \in TableNames :
           \E db \in HttpDbOutcomes(tbl2), out \in {o \in GenOutcomes :
                                                     TextIsTruthy(o.text)} :
             LET resp1 == HttpPlan(tbl1)
                 resp2 == HttpPlan(tbl2)
                 heard == <<Response(resp2, FALSE, NoRows, NoGenResponse),
                            Response(NoResponse, FALSE, db, NoGenResponse),
                            Response(NoResponse, FALSE, NoRows, out)>>
                 r == query_legal_assistant(QueryList[1], debug, resp1, heard)
             IN  /\ total_queries' = total_queries + 1
                 /\ responses' = Append(responses,
                       [endpoint |-> "query", debug |-> debug,
                        status |-> r.status, answer |-> r.answer,
                        query_plan |-> r.query_plan,
                        used_plan |-> r.used_plan,
                        planner_calls |-> r.planner_calls])
    /\ UNCHANGED <<pipeVars, dbVars, running, req, isoVars, ingestVars,
                   documents_processed, upload_dir>>

NextHttp == HealthCheck \/ UploadDocument \/ QueryLegalAssistant

SpecHttp == InitHttp /\ [][NextHttp]_vars

----------------------------------------------------------------------------
(* Properties.                                                             *)

\* the first 100 characters of a content
Prefix100(content) == SubSeq(content, 1, Min(100, Len(content)))

SearchCalls == SelectSeq(calls, LAMBDA c : c.op = "search")
EmbedCalls  == SelectSeq(calls, LAMBDA c : c.op = "embed")
Generated   == \E i \in DOMAIN calls : calls[i].op = "generate"

\* the request ended in an embedding call that failed
EmbedAborted == calls # <<>> /\ calls[Len(calls)].op = "embed"

Planned == query_plan.type = "dict"

PlanIsEmpty ==
    /\ Planned
    /\ PyLen(query_plan.val.legal_docs) = 0
    /\ PyLen(query_plan.val.cases) = 0

\* the distinct 100-character prefixes among all rows fetched so far
FetchedPrefixes == {Prefix100(fetched[i].doc.content) : i \in DOMAIN fetched}

(* C1: in the context handed to the generator every adjacent pair of       *)
(* entries satisfies similarity[i] >= similarity[i+1].                     *)
C1_ContextRankedDescending ==
    \A i \in 1..(Len(context) - 1) :
        context[i].similarity >= context[i + 1].similarity

\* a generated answer whose rows arrived in an order that was not descending
C1_Witness ==
    /\ pc = "done"
    /\ Generated
    /\ Len(context) >= 3
    /\ context[1].similarity > context[Len(context)].similarity
    /\ \E i, j \in DOMAIN all_results :
          /\ i < j
          /\ \E a, b \in DOMAIN fetched :
                /\ a < b
                /\ fetched[a].doc.content = all_results[j].content
                /\ fetched[b].doc.content = all_results[i].content
                /\ fetched[a].doc.similarity < fetched[b].doc.similarity

(* C2: no two entries of the merged result set, and none of the final      *)
(* context, share the same first 100 characters of content.                *)
C2_NoSharedPrefix ==
    /\ \A i, j \in DOMAIN all_results :
          i # j => Prefix100(all_results[i].content)
                     # Prefix100(all_results[j].content)
    /\ \A i, j \in DOMAIN context :
          i # j => Prefix100(context[i].content) # Prefix100(context[j].content)

\* two different sub-queries returned different chunks with one prefix, and
\* the request ran to a generated answer
C2_Witness ==
    /\ pc = "done"
    /\ Generated
    /\ Len(SearchCalls) >= 2
    /\ \E a, b \in DOMAIN fetched :
          /\ a < b
          /\ fetched[a].doc.content # fetched[b].doc.content
          /\ Prefix100(fetched[a].doc.content) = Prefix100(fetched[b].doc.content)
    /\ \E a, b \in DOMAIN fetched :
          /\ a < b
          /\ fetched[a].source # fetched[b].source
          /\ fetched[a].doc.content = fetched[b].doc.content

(* C3: the context has min(18, number of deduplicated candidates) entries, *)
(* and they are the deduplicated candidates of highest similarity.         *)
C3_TopEighteen ==
    (pc = "done" /\ Generated) =>
        /\ Len(context) = Min(18, Cardinality(FetchedPrefixes))
        /\ \A i \in DOMAIN context :
              \E k \in DOMAIN all_results :
                 /\ all_results[k].content = context[i].content
                 /\ all_results[k].similarity = context[i].similarity
        /\ \A k \in DOMAIN all_results :
              (\A i \in DOMAIN context :
                    context[i].content # all_results[k].content)
                 => \A i \in DOMAIN context :
                       context[i].similarity >= all_results[k].similarity

\* more than 18 candidates survived deduplication and 18 were kept, the
\* weakest kept one still stronger than a dropped one
C3_Witness ==
    /\ pc = "done"
    /\ Generated
    /\ Cardinality(FetchedPrefixes) > 18
    /\ Len(context) = 18
    /\ \E k \in DOMAIN all_results :
          all_results[k].similarity < context[18].similarity

(* C4: of the fetched chunks that share a 100-character prefix exactly one *)
(* survives, the one met first in processing order (legal_docs rows before *)
(* cases rows); it keeps its own similarity and source_table.              *)
C4_FirstOccurrenceWins ==
    /\ \A a, b \in DOMAIN fetched :
          (a < b /\ fetched[a].source = "cases") => fetched[b].source = "cases"
    /\ \A a \in DOMAIN fetched :
          (\A b \in 1..(a - 1) :
                Prefix100(fetched[b].doc.content)
                   # Prefix100(fetched[a].doc.content))
          => LET same == {k \in DOMAIN all_results :
                            Prefix100(all_results[k].content)
                               = Prefix100(fetched[a].doc.content)}
             IN  /\ Cardinality(same) = 1
                 /\ \A k \in same :
                       /\ all_results[k].content = fetched[a].doc.content
                       /\ all_results[k].similarity = fetched[a].doc.similarity
                       /\ all_results[k].source_table = fetched[a].source

\* a later duplicate from the other table with a higher similarity was
\* dropped, and so was a later chunk that only shares the prefix
C4_Witness ==
    /\ pc = "done"
    /\ \E a, b \in DOMAIN fetched :
          /\ a < b
          /\ fetched[a].doc.content = fetched[b].doc.content
          /\ fetched[a].source = "legal_docs"
          /\ fetched[b].source = "cases"
          /\ fetched[b].doc.similarity > fetched[a].doc.similarity
    /\ \E a, b \in DOMAIN fetched :
          /\ a < b
          /\ fetched[a].doc.content # fetched[b].doc.content
          /\ Prefix100(fetched[a].doc.content) = Prefix100(fetched[b].doc.content)

(* C5: when both lists of the plan are empty the request makes no          *)
(* embedding, search or generator call and returns the "couldn't find      *)
(* relevant information" message.                                          *)
C5_EmptyPlanShortCircuit ==
    PlanIsEmpty =>
        /\ \A i \in DOMAIN calls : calls[i].op = "plan"
        /\ pc \in {"rank", "done"}
        /\ pc = "done" => ret = NothingFound

\* the keyword fallback produced an empty plan and the request ended with
\* the fixed message
C5_Witness ==
    /\ PlanIsEmpty
    /\ pc = "done"
    /\ ret = NothingFound
    /\ llm_response = LLMRaise

(* C6: when every sub-query of a non-empty plan was searched and the store *)
(* returned no row for any of them, the request returns the "couldn't find *)
(* relevant information" message and the generator is never invoked.       *)
C6_NoRowsNothingFound ==
    ( /\ pc = "done"
      /\ Planned
      /\ ~PlanIsEmpty
      /\ Len(SearchCalls)
            = PyLen(query_plan.val.legal_docs) + PyLen(query_plan.val.cases)
      /\ fetched = <<>> )
    => (ret = NothingFound /\ ~Generated)

\* three sub-queries over both tables, all searched, no row
C6_Witness ==
    /\ pc = "done"
    /\ Planned
    /\ PyLen(query_plan.val.legal_docs) >= 1
    /\ PyLen(query_plan.val.cases) >= 2
    /\ Len(SearchCalls) = 3
    /\ fetched = <<>>
    /\ ret = NothingFound

\* the searches a plan asks for: legal_docs with k=7 in list order, then
\* cases with k=11 in list order
ExpectedSearches(plan) ==
    [i \in 1..PyLen(plan.val.legal_docs) |->
        Call("search", "legal_docs", 7, Embedding(Iter(plan.val.legal_docs)[i]))]
    \o
    [i \in 1..PyLen(plan.val.cases) |->
        Call("search", "cases", 11, Embedding(Iter(plan.val.cases)[i]))]

IsPrefix(s, t) == Len(s) <= Len(t) /\ s = SubSeq(t, 1, Len(s))

(* C7 as stated: once the request has ended, exactly one search per        *)
(* sub-query of the plan has been issued.                                  *)
C7_Original_OneSearchPerSubQuery ==
    (pc = "done" /\ Planned) => SearchCalls = ExpectedSearches(query_plan)

(* C7: the searches issued are, in order, those of the plan's sub-queries  *)
(* (legal_docs with k=7, cases with k=11, one per sub-query, none for an   *)
(* empty list): all of them unless an embedding failure aborted the        *)
(* request, and then those of the sub-queries before the failing one; and  *)
(* every fetched row that is kept carries the table it was fetched from.   *)
C7_SearchesFollowPlan ==
    /\ ~Planned => SearchCalls = <<>>
    /\ Planned =>
          /\ IsPrefix(SearchCalls, ExpectedSearches(query_plan))
          /\ (pc \in {"rank", "done"} /\ ~EmbedAborted)
                => SearchCalls = ExpectedSearches(query_plan)
          /\ EmbedAborted => Len(EmbedCalls) = Len(SearchCalls) + 1
          /\ ~EmbedAborted => Len(EmbedCalls) = Len(SearchCalls)
    /\ \A k \in DOMAIN all_results :
          \E a \in DOMAIN fetched :
             /\ fetched[a].doc.content = all_results[k].content
             /\ fetched[a].source = all_results[k].source_table
             /\ \E c \in DOMAIN SearchCalls :
                   SearchCalls[c].table = all_results[k].source_table

\* a plan with one legal_docs and two cases sub-queries, all searched with
\* rows returned from both tables
C7_Witness ==
    /\ pc = "done"
    /\ Planned
    /\ ~EmbedAborted
    /\ Len(SearchCalls) = 3
    /\ SearchCalls[1].table = "legal_docs"
    /\ SearchCalls[3].table = "cases"
    /\ \E a, b \in DOMAIN all_results :
          /\ all_results[a].source_table = "legal_docs"
          /\ all_results[b].source_table = "cases"

(* C8: answer_query_unified never raises to its caller and what it returns *)
(* is a string, whatever the planner, the embedding provider, the store    *)
(* and the generator do.                                                   *)
C8_AlwaysReturnsString ==
    /\ ~raised
    /\ pc = "done" => ret.type = "str"
    /\ pc # "done" => ret = NoReturn

\* the planning call failed, a later embedding call failed too, and the
\* caller got the generic message
C8_Witness ==
    /\ pc = "done"
    /\ llm_response = LLMRaise
    /\ EmbedAborted
    /\ Len(SearchCalls) >= 1
    /\ fetched # <<>>
    /\ ret = ErrorProcessing

\* the planning outputs the try block cannot use: the call raises, no text,
\* text that is not JSON, JSON that is not a mapping, a mapping without one
\* of the two keys
FailedResponses ==
    {LLMRaise, LLMNoText}
      \cup {LLMText("none", d) :
              d \in { JInvalid, JList(<<JStr(SubQueryPool[1])>>), JNum(7),
                      JStr(SubQueryPool[1]), JNull,
                      JDict([legal_docs |-> SubQueryList(1)]),
                      JDict([cases |-> SubQueryList(1)]),
                      JDict([queries |-> SubQueryList(1)]) }}

\* for each query of QueryList: does its lower-cased text contain one of
\* section, article, act, ipc, constitution / one of case, judgment,
\* precedent, court, interpretation
ExpectedTargets ==
    << <<TRUE, TRUE>>,      \* article 14 interpretation
       <<FALSE, FALSE>>,    \* hello
       <<TRUE, FALSE>>,     \* What is Article 21?
       <<TRUE, FALSE>>,     \* SECTION 420
       <<FALSE, TRUE>>,     \* court cases
       <<TRUE, FALSE>>,     \* contract
       <<TRUE, TRUE>>,      \* IPC Judgment
       <<FALSE, TRUE>>,     \* Precedent
       <<FALSE, FALSE>> >>  \* the empty query

QueryIndex(q) == CHOOSE i \in DOMAIN QueryList : QueryList[i] = q

LiteralOrEmpty(hit, q) == IF hit THEN JList(<<JStr(q)>>) ELSE JList(<<>>)

(* C9: when the LLM planning path fails, the plan returned is legal_docs = *)
(* [the literal query] if the lower-cased query contains a statute keyword *)
(* (else []) and cases = [the literal query] if it contains a case-law     *)
(* keyword (else []).                                                      *)
C9_FallbackPlanByKeywords ==
    (pc = "planned" /\ llm_response \in FailedResponses) =>
        LET want == ExpectedTargets[QueryIndex(query)] IN
        query_plan = JDict([legal_docs |-> LiteralOrEmpty(want[1], query),
                            cases      |-> LiteralOrEmpty(want[2], query)])

\* an upper-case SECTION query whose planning call failed targets legal_docs
\* with the literal query
C9_Witness ==
    /\ pc = "planned"
    /\ llm_response = LLMText("none", JInvalid)
    /\ query = QueryList[4]
    /\ query_plan.val.legal_docs = JList(<<JStr(query)>>)
    /\ query_plan.val.cases = JList(<<>>)

IsListOfStrings(v) ==
    v.type = "list" /\ \A i \in DOMAIN v.val : v.val[i].type = "str"

(* C10: however the LLM planning call fails, analyze_and_generate_queries  *)
(* does not raise and returns a mapping with the keys legal_docs and       *)
(* cases, each a list of strings.                                          *)
C10_FallbackNeverRaises ==
    (pc = "planned" /\ llm_response \in FailedResponses) =>
        /\ ~raised
        /\ query_plan.type = "dict"
        /\ DOMAIN query_plan.val = {"legal_docs", "cases"}
        /\ IsListOfStrings(query_plan.val.legal_docs)
        /\ IsListOfStrings(query_plan.val.cases)

\* a mapping without "cases" was answered with an all-empty plan
C10_Witness ==
    /\ pc = "planned"
    /\ llm_response = LLMText("none", JDict([legal_docs |-> SubQueryList(1)]))
    /\ ~raised
    /\ query_plan = JDict([legal_docs |-> JList(<<>>), cases |-> JList(<<>>)])

(* C11: every plan analyze_and_generate_queries returns, on the LLM path   *)
(* and on the fallback path, has for legal_docs and for cases a list of    *)
(* length between 0 and 3.  Stated here for the values that are lists; the *)
(* code returns the LLM's four-element list as it came.                    *)
C11_PlanListsAtMostThree ==
    (pc = "planned" /\ ~raised) =>
        \A k \in {"legal_docs", "cases"} :
            query_plan.val[k].type = "list" =>
                Len(query_plan.val[k].val) \in 0..3

\* the plan schema: a mapping with exactly the two keys, each a list of
\* strings
ConformsToSchema(v) ==
    /\ v.type = "dict"
    /\ DOMAIN v.val = {"legal_docs", "cases"}
    /\ IsListOfStrings(v.val.legal_docs)
    /\ IsListOfStrings(v.val.cases)

\* the LLM answered with text that parses as JSON and violates the schema
SchemaViolated ==
    /\ llm_response.kind = "text"
    /\ llm_response.json.type # "invalid"
    /\ ~ConformsToSchema(llm_response.json)

(* C12: whenever the LLM's parsed output violates the plan schema (not a   *)
(* mapping, a missing or extra key, a value that is not a list, a list     *)
(* element that is not a string), the keyword-heuristic fallback plan is   *)
(* returned and no part of the malformed structure reaches the caller.     *)
C12_SchemaViolationFallsBack ==
    (pc = "planned" /\ SchemaViolated) =>
        LET want == ExpectedTargets[QueryIndex(query)] IN
        /\ ~raised
        /\ query_plan = JDict([legal_docs |-> LiteralOrEmpty(want[1], query),
                               cases      |-> LiteralOrEmpty(want[2], query)])

GenerateCalls == SelectSeq(calls, LAMBDA c : c.op = "generate")

\* the answer LLM call raised, or came back with no text or an empty text
GenerationFailed ==
    \/ gen_response.kind = "raise"
    \/ gen_response.kind = "text" /\ ~TextIsTruthy(gen_response.text)

(* C13: within one answer_query_unified call the answer generator is       *)
(* invoked at most once; if that invocation raises or returns empty text,  *)
(* the call ends with a fixed error string ("Error generating response     *)
(* from AI." / "Error: Empty response from AI.") and no second generation  *)
(* call is made.                                                           *)
C13_GeneratorOnceNoRetry ==
    /\ Len(GenerateCalls) <= 1
    /\ GenerationFailed =>
          /\ pc = "done"
          /\ ~raised
          /\ Len(GenerateCalls) = 1
          /\ ret = IF gen_response.kind = "raise" THEN ErrorGenerating
                   ELSE EmptyResponse

\* rows were found, the one generation call returned an empty text, and the
\* caller got the empty-response message
C13_Witness ==
    /\ pc = "done"
    /\ context # <<>>
    /\ gen_response = [kind |-> "text", text |-> RetStr("")]
    /\ Len(GenerateCalls) = 1
    /\ ret = EmptyResponse

\* some search of the request found the similarity store unreachable
StoreUnreachable == \E i \in DOMAIN outcomes : outcomes[i] = "db_failed"

(* C14: when the similarity store is unreachable (the connection or the    *)
(* search query fails) during answer_query_unified, the caller receives    *)
(* the generic "Error processing your query" message, not the "nothing     *)
(* found" message and not a generated answer.                              *)
C14_StoreFailureIsProcessingError ==
    (pc = "done" /\ StoreUnreachable) =>
        /\ ret = ErrorProcessing
        /\ ~Generated

\* some embedding call of the request failed
EmbeddingFailed == \E i \in DOMAIN outcomes : outcomes[i] = "embed_failed"

(* C15: if the embedding provider fails for a sub-query, the request is    *)
(* aborted: that sub-query and all later ones are not searched, the answer *)
(* generator is never invoked, rows fetched by earlier sub-queries reach   *)
(* no context, and "Error processing your query. Please try again." is     *)
(* returned.                                                               *)
C15_EmbeddingFailureAborts ==
    EmbeddingFailed =>
        /\ pc = "done"
        /\ outcomes[Len(outcomes)] = "embed_failed"
        /\ calls[Len(calls)].op = "embed"
        /\ Len(SearchCalls) = Len(outcomes) - 1
        /\ ~Generated
        /\ context = <<>>
        /\ formatted_context = <<>>
        /\ ret = ErrorProcessing

\* the first sub-query fetched rows, the embedding of the second failed
C15_Witness ==
    /\ EmbeddingFailed
    /\ Len(outcomes) = 2
    /\ all_results # <<>>
    /\ ret = ErrorProcessing

\* the embeddings searched in table tbl so far, in call order
TableSearchArgs(tbl) ==
    LET cs == SelectSeq(calls, LAMBDA c : c.op = "search" /\ c.table = tbl)
    IN  [i \in 1..Len(cs) |-> cs[i].arg]

\* the embeddings of the plan's sub-queries for tbl, in list order
PlannedArgs(tbl) ==
    [i \in 1..Len(Iter(query_plan.val[tbl])) |->
        Embedding(Iter(query_plan.val[tbl])[i])]

(* C17: within one answer_query_unified call the collaborator calls are    *)
(* strictly ordered: the planner call is the first call and the only       *)
(* planner call, every legal_docs search precedes every cases search, the  *)
(* searches of one table follow the plan's list order, a generator call is *)
(* the last call of the request, and calls do not overlap: each search     *)
(* directly follows the embedding call whose vector it uses.               *)
C17_CallsStrictlyOrdered ==
    /\ \A i \in DOMAIN calls : calls[i].op = "plan" <=> i = 1
    /\ \A i, j \in DOMAIN calls :
          (i < j /\ calls[i].op = "search" /\ calls[i].table = "cases") =>
              ~(calls[j].op = "search" /\ calls[j].table = "legal_docs")
    /\ Planned =>
          \A tbl \in {"legal_docs", "cases"} :
              IsPrefix(TableSearchArgs(tbl), PlannedArgs(tbl))
    /\ \A i \in DOMAIN calls :
          calls[i].op = "generate" => (i = Len(calls) /\ pc = "done")
    /\ \A i \in DOMAIN calls :
          calls[i].op = "search" =>
              /\ i > 1
              /\ calls[i - 1].op = "embed"
              /\ calls[i].arg = Embedding(calls[i - 1].arg)

\* a request that planned, searched legal_docs once and cases twice, and
\* generated an answer
C17_Witness ==
    /\ pc = "done"
    /\ Len(TableSearchArgs("legal_docs")) = 1
    /\ Len(TableSearchArgs("cases")) = 2
    /\ TableSearchArgs("cases")[1] # TableSearchArgs("cases")[2]
    /\ calls[Len(calls)].op = "generate"

\* positions of the header line h in the formatted context
HeaderPos(h) ==
    {i \in DOMAIN formatted_context :
        formatted_context[i].kind = "header" /\ formatted_context[i].title = h}

\* the numbered entries written under header h: the blocks between that
\* header and the next header (or the end)
SectionEntries(h) ==
    IF HeaderPos(h) = {} THEN <<>>
    ELSE LET p    == CHOOSE i \in HeaderPos(h) : TRUE
             nxt  == {i \in DOMAIN formatted_context :
                        i > p /\ formatted_context[i].kind = "header"}
             stop == IF nxt = {} THEN Len(formatted_context) + 1
                     ELSE CHOOSE i \in nxt : \A j \in nxt : i <= j
         IN  SubSeq(formatted_context, p + 1, stop - 1)

\* the context entries fetched from tbl, in ranked order
ContextFrom(tbl) == SelectSeq(context, LAMBDA c : c.source_table = tbl)

\* the blocks of group are the numbered renderings of entries, in order
RendersInOrder(group, entries) ==
    /\ Len(group) = Len(entries)
    /\ \A i \in DOMAIN group :
          /\ group[i].kind = "entry"
          /\ group[i].ordinal = i
          /\ group[i].title = entries[i].title
          /\ group[i].content = Slice(entries[i].content, 600)

NumEntryBlocks ==
    Cardinality({i \in DOMAIN formatted_context :
                    formatted_context[i].kind = "entry"})

(* C18: get_gemini_response_unified places every context entry in exactly *)
(* one of two groups, statutory when source_table is legal_docs and        *)
(* judicial when it is cases, and within each group the entries appear in  *)
(* the same relative order as in the ranked context.                       *)
C18_PartitionKeepsRankOrder ==
    Generated =>
        /\ RendersInOrder(SectionEntries(StatutoryHeader),
                          ContextFrom("legal_docs"))
        /\ RendersInOrder(SectionEntries(JudicialHeader), ContextFrom("cases"))
        /\ NumEntryBlocks = Len(context)

\* a ranked context that starts with a judgment and also holds a statute:
\* the partition moves the statute in front of it
C18_Witness ==
    /\ Generated
    /\ Len(context) >= 3
    /\ context[1].source_table = "cases"
    /\ \E i \in DOMAIN context : context[i].source_table = "legal_docs"
    /\ Len(ContextFrom("cases")) >= 2
    /\ formatted_context[2].title = "Act"

(* C19: the formatted context contains the "Statutory Provisions" header   *)
(* exactly when the context has a statutory entry and the "Court Judgments *)
(* & Precedents" header exactly when it has a judicial entry, each at most *)
(* once; when both are present the statutory section comes first.          *)
C19_HeadersIffGroupNonEmpty ==
    Generated =>
        /\ HeaderPos(StatutoryHeader) # {} <=> ContextFrom("legal_docs") # <<>>
        /\ HeaderPos(JudicialHeader) # {} <=> ContextFrom("cases") # <<>>
        /\ Cardinality(HeaderPos(StatutoryHeader)) <= 1
        /\ Cardinality(HeaderPos(JudicialHeader)) <= 1
        /\ \A i \in HeaderPos(StatutoryHeader), j \in HeaderPos(JudicialHeader) :
              /\ i = 1
              /\ j = i + Len(ContextFrom("legal_docs")) + 1

\* only judgments were found: the formatted context opens with the judicial
\* header and has no statutory header
C19_Witness ==
    /\ Generated
    /\ ContextFrom("legal_docs") = <<>>
    /\ ContextFrom("cases") # <<>>
    /\ formatted_context[1] = HeaderBlock(JudicialHeader)
    /\ HeaderPos(StatutoryHeader) = {}

(* C16: every operation of the persistence adapter that acquires a        *)
(* database connection (fetch_similar_documents, insert_many,              *)
(* check_if_docid_exists, insert, test_connection) releases it on every    *)
(* exit path, so after any sequence of operations no connection is open.   *)
C16_NoConnectionLeftOpen == open_conns = 0

\* the requests whose handler has executed its first statement
Counted == {r \in Requests : req[r].pc \in {"answer", "done"}}

(* C20: total_queries never decreases and, for any interleaving of the     *)
(* requests to /api/query, equals the number of requests whose handler has *)
(* started: one increment per request, made before anything else and kept  *)
(* whether the request later answers 200 or 500; no update is lost.        *)
C20_CounterCountsEveryRequest ==
    /\ [](total_queries = Cardinality(Counted))
    /\ [](\A r \in Requests : req[r].pc = "store" => req[r].tmp = total_queries)
    /\ [][total_queries' >= total_queries]_vars

\* all requests were served, some with 200 and some with 500, and every
\* one of them was counted
C20_Witness ==
    /\ \A r \in Requests : req[r].pc = "done"
    /\ \E r \in Requests : req[r].status = 500
    /\ \E r \in Requests : req[r].status = 200
    /\ total_queries = NumRequests

\* the plain-language strings answer_query_unified can return by itself
FixedMessages == {NothingFound, ErrorProcessing, EmptyResponse, ErrorGenerating}

(* C22: the value returned by answer_query_unified is either the           *)
(* generator's non-empty text, unchanged, or one of the fixed strings      *)
(* (nothing found, processing error, empty response, generation error);    *)
(* the text of an internal exception is never part of it.                  *)
C22_ReturnIsTextOrFixedMessage ==
    pc = "done" =>
        \/ ret \in FixedMessages
        \/ /\ gen_response.kind = "text"
           /\ TextIsTruthy(gen_response.text)
           /\ ret = gen_response.text

\* an embedding call raised TypeError inside the try block and the caller
\* got the fixed processing-error string
C22_Witness ==
    /\ pc = "done"
    /\ EmbeddingFailed
    /\ ret = ErrorProcessing

\* the records of the cases table the model's searches can return
StoredCases == {CasesRecord(c) : c \in 1..((NumWindows - 1) * Stride + FullLen)}

\* the stored record a judicial context entry was retrieved from
StoredCaseOf(entry) == CHOOSE rec \in StoredCases : rec.content = entry.content

(* C25: for case chunks that reach the assembler through                   *)
(* answer_query_unified, a judicial entry of the formatted context carries *)
(* the [doc_id: ...] suffix exactly when the chunk's stored record has a   *)
(* non-empty doc_id, and the (section_type) suffix exactly when it has a   *)
(* non-empty section_type.                                                 *)
C25_SuffixesFollowStoredRecord ==
    Generated =>
        LET judicial == ContextFrom("cases")
            blocks   == SectionEntries(JudicialHeader)
        IN  \A i \in DOMAIN judicial :
              /\ blocks[i].doc_id_info # <<>>
                    <=> StoredCaseOf(judicial[i]).doc_id # ""
              /\ blocks[i].section_info # <<>>
                    <=> StoredCaseOf(judicial[i]).section_type # ""

ContextSet(ctx) ==
    {[content |-> ctx[i].content, similarity |-> ctx[i].similarity,
      source_table |-> ctx[i].source_table] : i \in DOMAIN ctx}

(* C23: for fixed similarity-store responses per sub-query, permuting the  *)
(* sub-queries within a table's list of the plan leaves the final ranked   *)
(* context, as the set of entries with their similarity and source_table,  *)
(* unchanged.                                                              *)
C23_MergeIsOrderIndependent ==
    exec # <<>> => ContextSet(exec[1].st.context) = ContextSet(exec[2].st.context)

\* the concatenation of a sequence of batches
RECURSIVE Flatten(_)
Flatten(batches) ==
    IF batches = <<>> THEN <<>> ELSE Head(batches) \o Flatten(Tail(batches))

\* ceil(n / BatchSize)
NumBatches(n) == (n + BatchSize - 1) \div BatchSize

(* C27: get_embeddings sends the n input texts to the provider in input    *)
(* order, in calls of at most 100 texts each; when no call fails it has    *)
(* made ceil(n/100) calls and returns exactly n vectors, the i-th being    *)
(* the vector of the i-th text; when a call fails it returns None, never   *)
(* the vectors collected so far.                                           *)
C27_BatchesInOrderAllOrNone ==
    embed # <<>> =>
        LET n    == Len(embed.chunks)
            flat == Flatten(embed.sent)
        IN  /\ \A b \in 1..Len(embed.sent) :
                 Len(embed.sent[b]) \in 1..BatchSize
            /\ Len(flat) <= n
            /\ flat = SubSeq(embed.chunks, 1, Len(flat))
            /\ Len(embed.sent) <= NumBatches(n)
            /\ embed.pc = "done" =>
                 IF embed.failed
                 THEN embed.ret = JNull
                 ELSE /\ Len(embed.sent) = NumBatches(n)
                      /\ flat = embed.chunks
                      /\ embed.ret.type = "list"
                      /\ Len(embed.ret.val) = n
                      /\ \A k \in 1..n :
                           embed.ret.val[k] = Embedding(embed.chunks[k])

\* more than two full batches of texts were embedded, the last call with
\* the remainder
C27_Witness ==
    /\ embed # <<>>
    /\ embed.pc = "done"
    /\ ~embed.failed
    /\ Len(embed.chunks) > BatchSize + BatchSize
    /\ Len(embed.sent[Len(embed.sent)]) < BatchSize

(* C26: insert_case_into_db returns True only if the case's chunk records  *)
(* were committed to the cases table, and returns False whenever chunk     *)
(* processing, embedding or the database insertion failed.                 *)
C26_TrueOnlyWhenCommitted ==
    scraper # <<>> =>
        \A k \in 1..Len(scraper.log) :
            /\ scraper.log[k].success => scraper.log[k].committed
            /\ scraper.log[k].failure # "none" => ~scraper.log[k].success

\* the insertions of a judgment that the database committed
InsertionsOf(doc_id) ==
    {k \in 1..Len(scraper.log) :
        scraper.log[k].doc_id = doc_id /\ scraper.log[k].committed}

(* C24: a judgment whose doc_id is already in the cases table is skipped,  *)
(* so scraping the same result page again adds no further chunks for that  *)
(* doc_id: every doc_id's rows come from one insertion, and the table      *)
(* holds no chunk of a judgment twice.                                     *)
C24_NoDocIdIngestedTwice ==
    scraper # <<>> =>
        \A d \in 1..NumCases :
            /\ Cardinality(InsertionsOf(d)) <= 1
            /\ \A a, b \in 1..Len(cases_table) :
                 /\ a # b
                 /\ cases_table[a].doc_id = d
                 /\ cases_table[b].doc_id = d
                 => cases_table[a].content # cases_table[b].content

\* the responses an endpoint has sent
ResponsesOf(endpoint) ==
    {k \in 1..Len(responses) : responses[k].endpoint = endpoint}

(* C28: an upload whose filename does not end in .pdf is answered with the *)
(* HTTP 400 error "Only PDF files are supported"; no file is written and   *)
(* no counter is changed.                                                  *)
C28_NonPdfUploadAnswered400 ==
    \A k \in ResponsesOf("upload") :
        ~EndsWith(responses[k].filename, <<".", "p", "d", "f">>) =>
            /\ responses[k].status = 400
            /\ responses[k].detail = "Only PDF files are supported"
            /\ ~responses[k].wrote
            /\ ~responses[k].counted

(* C29: /health reports "unhealthy" with database_connected = False        *)
(* whenever the connection attempt failed, and "healthy" with              *)
(* database_connected = True only when it succeeded.                       *)
C29_HealthFollowsConnection ==
    \A k \in ResponsesOf("health") :
        IF responses[k].connection_failed
        THEN /\ responses[k].status = "unhealthy"
             /\ ~responses[k].database_connected
        ELSE /\ responses[k].status = "healthy"
             /\ responses[k].database_connected

(* C30: for a /api/query request with debug enabled, the query_plan in the *)
(* response is the plan answer_query_unified used to retrieve the context  *)
(* of the returned answer, and the planner is invoked once per request.    *)
C30_ReportedPlanIsPlanUsed ==
    \A k \in ResponsesOf("query") :
        responses[k].debug /\ responses[k].status = 200 =>
            /\ responses[k].query_plan = responses[k].used_plan
            /\ responses[k].planner_calls = 1

====
